---- MODULE Spec2Model ----
(***************************************************************************)
(* Model of the Commons-to-Wikidata reconciliation bot:                    *)
(*   src/src/illustrations_to_quickstatements.py   (the item flow:         *)
(*       image / illustration claims P18 / P13162 on taxon items)          *)
(*   src/commons_uploads/src/add_depicts.py        (the depicts flow:      *)
(*       depicts claims P180 on the media-info record of each file)        *)
(*   src/commons_uploads/src/helper.py, src/src/helper.py (remote calls)   *)
(*                                                                         *)
(* Text (category titles, file names, taxon names) is a sequence of        *)
(* one-character strings, so that the regular expressions, strip(),        *)
(* replace(), split() and urllib.parse.quote() are computed, not assumed.  *)
(***************************************************************************)
EXTENDS Integers, Sequences, FiniteSets, TLC

\* ---------------------------------------------------------------- bounds
\* number of runs of the script over the same ledger files
MaxRuns == 2
\* number of text chunks a title of the extractor check is built from
MaxChunks == 3
\* number of remote calls that fail (a write that raises, a record that
\* cannot be loaded, a categories request that gives nothing) over all runs
MaxFaults == 2

\* ------------------------------------------------------------------ text
\* Python None where a text is expected (no regular expression matched)
NoMatch == <<"no match">>
\* Python None where an entity id is expected
NoItem == "no item"

LitDashBotanical ==
    <<" ", "-", " ", "b", "o", "t", "a", "n", "i", "c", "a", "l", " ", "i", "l", "l", "u", "s", "t", "r", "a", "t", "i", "o", "n", "s">>
LitBotanical ==
    <<" ", "b", "o", "t", "a", "n", "i", "c", "a", "l", " ", "i", "l", "l", "u", "s", "t", "r", "a", "t", "i", "o", "n", "s">>
LitIllustrations ==
    <<" ", "(", "i", "l", "l", "u", "s", "t", "r", "a", "t", "i", "o", "n", "s", ")">>
LitUnidentified ==
    <<"U", "n", "i", "d", "e", "n", "t", "i", "f", "i", "e", "d">>
LitCategoryPrefix ==
    <<"C", "a", "t", "e", "g", "o", "r", "y", ":">>
LitFilePrefix ==
    <<"F", "i", "l", "e", ":">>
StrRosa ==
    <<"R", "o", "s", "a">>
StrIllustrated ==
    <<" ", "i", "l", "l", "u", "s", "t", "r", "a", "t", "e", "d">>
FamRosaceae ==
    <<"R", "o", "s", "a", "c", "e", "a", "e">>
FamPinaceae ==
    <<"P", "i", "n", "a", "c", "e", "a", "e">>
GenRosa ==
    <<"R", "o", "s", "a">>
GenUnidentified ==
    <<"U", "n", "i", "d", "e", "n", "t", "i", "f", "i", "e", "d", " ", "R", "o", "s", "a", "c", "e", "a", "e">>
GenAbies ==
    <<"A", "b", "i", "e", "s">>
TaxRosaCanina ==
    <<"R", "o", "s", "a", " ", "c", "a", "n", "i", "n", "a", " ", "-", " ", "b", "o", "t", "a", "n", "i", "c", "a", "l", " ", "i", "l", "l", "u", "s", "t", "r", "a", "t", "i", "o", "n", "s">>
TaxRosaAlba ==
    <<"R", "o", "s", "a", " ", "a", "l", "b", "a", " ", "b", "o", "t", "a", "n", "i", "c", "a", "l", " ", "i", "l", "l", "u", "s", "t", "r", "a", "t", "i", "o", "n", "s">>
TaxRosaGallica ==
    <<"R", "o", "s", "a", " ", "g", "a", "l", "l", "i", "c", "a", " ", "(", "i", "l", "l", "u", "s", "t", "r", "a", "t", "i", "o", "n", "s", ")">>
TaxRosaPlates ==
    <<"R", "o", "s", "a", " ", "p", "l", "a", "t", "e", "s">>
TaxAbiesAlba ==
    <<"A", "b", "i", "e", "s", " ", "a", "l", "b", "a", " ", "(", "i", "l", "l", "u", "s", "t", "r", "a", "t", "i", "o", "n", "s", ")">>
CatLicense ==
    <<"C", "C", "-", "B", "Y">>
FileA ==
    <<"a", ".", "j", "p", "g">>
FileB ==
    <<"b", " ", "c", ".", "j", "p", "g">>
FileC ==
    <<"c", ".", "j", "p", "g">>
FileD ==
    <<"d", ".", "j", "p", "g">>
FileE ==
    <<"e", ".", "j", "p", "g">>

TaxAbiesPinsapo ==
    <<"A", "b", "i", "e", "s", " ", "p", "i", "n", "s", "a", "p", "o", " ", "(", "i", "l", "l", "u", "s", "t", "r", "a", "t", "i", "o", "n", "s", ")">>
NameRosaCanina ==
    <<"R", "o", "s", "a", " ", "c", "a", "n", "i", "n", "a">>
NameRosaAlba ==
    <<"R", "o", "s", "a", " ", "a", "l", "b", "a">>
NameAbiesAlba ==
    <<"A", "b", "i", "e", "s", " ", "a", "l", "b", "a">>
NameAbiesPinsapo ==
    <<"A", "b", "i", "e", "s", " ", "p", "i", "n", "s", "a", "p", "o">>
NameRosaAlbaLong ==
    <<"R", "o", "s", "a", " ", "a", "l", "b", "a", " ", "b", "o", "t", "a", "n", "i", "c", "a", "l", " ", "i", "l", "l", "u", "s", "t", "r", "a", "t", "i", "o", "n", "s">>
NameAbiesAlbaLong ==
    <<"A", "b", "i", "e", "s", " ", "a", "l", "b", "a", " ", "(", "i", "l", "l", "u", "s", "t", "r", "a", "t", "i", "o", "n", "s", ")">>
NameCC ==
    <<"C", "C">>
RootCategory ==
    <<"B", "o", "t", "a", "n", "i", "c", "a", "l", " ", "i", "l", "l", "u", "s", "t", "r", "a", "t", "i", "o", "n", "s", " ", "b", "y", " ", "f", "a", "m", "i", "l", "y">>
FilePathUriPrefix ==
    <<"h", "t", "t", "p", ":", "/", "/", "c", "o", "m", "m", "o", "n", "s", ".", "w", "i", "k", "i", "m", "e", "d", "i", "a", ".", "o", "r", "g", "/", "w", "i", "k", "i", "/", "S", "p", "e", "c", "i", "a", "l", ":", "F", "i", "l", "e", "P", "a", "t", "h", "/">>

Max(S) == CHOOSE x \in S : \A y \in S : y <= x
Min(S) == CHOOSE x \in S : \A y \in S : x <= y

Range(s) == {s[i] : i \in 1..Len(s)}

\* the text of s from position i (1-based) to the end
Tail_(s, i) == SubSeq(s, i, Len(s))

\* lit occurs in s starting at position i
StartsWithAt(s, i, lit) ==
    /\ i >= 1
    /\ i + Len(lit) - 1 <= Len(s)
    /\ \A k \in 1..Len(lit) : s[i + k - 1] = lit[k]

\* Python: sub in s
Contains(s, sub) == \E i \in 1..(Len(s) + 1) : StartsWithAt(s, i, sub)

\* Python: s.replace(old, new), every non-overlapping occurrence, left to right
RECURSIVE Replace(_, _, _)
Replace(s, old, new) ==
    IF s = <<>> THEN <<>>
    ELSE IF StartsWithAt(s, 1, old)
         THEN new \o Replace(Tail_(s, Len(old) + 1), old, new)
         ELSE <<Head(s)>> \o Replace(Tail(s), old, new)

Whitespace == {" "}

\* Python: s.strip()
Strip(s) ==
    LET keep == {i \in 1..Len(s) : s[i] \notin Whitespace}
    IN IF keep = {} THEN <<>> ELSE SubSeq(s, Min(keep), Max(keep))

\* Python: s.split("-")[0]
SplitDashFirst(s) ==
    LET dashes == {i \in 1..Len(s) : s[i] = "-"}
    IN IF dashes = {} THEN s ELSE SubSeq(s, 1, Min(dashes) - 1)

\* ------------------------------------------------- urllib.parse.quote
\* characters quote() never escapes (letters, digits and "_.-~")
AlwaysSafe ==
    {"a", "b", "c", "d", "e", "f", "g", "h", "i", "j", "k", "l", "m", "n",
     "o", "p", "q", "r", "s", "t", "u", "v", "w", "x", "y", "z",
     "A", "B", "C", "D", "E", "F", "G", "H", "I", "J", "K", "L", "M", "N",
     "O", "P", "Q", "R", "S", "T", "U", "V", "W", "X", "Y", "Z",
     "0", "1", "2", "3", "4", "5", "6", "7", "8", "9", "_", ".", "-", "~"}

\* the percent escape of the other characters that occur in the model
PercentEscape(c) ==
    CASE c = " " -> <<"%", "2", "0">>
      [] c = "(" -> <<"%", "2", "8">>
      [] c = ")" -> <<"%", "2", "9">>
      [] c = ":" -> <<"%", "3", "A">>
      [] c = "/" -> <<"%", "2", "F">>
      [] c = "%" -> <<"%", "2", "5">>

RECURSIVE Quote(_, _)
Quote(s, safe) ==
    IF s = <<>> THEN <<>>
    ELSE (IF Head(s) \in AlwaysSafe \cup safe
          THEN <<Head(s)>> ELSE PercentEscape(Head(s)))
         \o Quote(Tail(s), safe)

\* urllib.parse.quote(file): the default safe set is "/"
QuoteDefault(s) == Quote(s, {"/"})

\* ------------------------------------------------------ name extractor
\* re.match(r"([^\\-]+)<lit>", title): group 1 is a non-empty prefix of the
\* title without "\" and "-", followed by lit; "+" is greedy, so of the
\* prefixes that work the longest is taken.  NoMatch when nothing matches.
MatchGroup(title, lit) ==
    LET ends == {p \in 1..Len(title) :
                    /\ \A i \in 1..p : title[i] \notin {"\\", "-"}
                    /\ StartsWithAt(title, p + 1, lit)}
    IN IF ends = {} THEN NoMatch ELSE SubSeq(title, 1, Max(ends))

\* the three patterns in the order the code tries them
PatternsSwapped == <<LitBotanical, LitDashBotanical, LitIllustrations>>
Patterns == <<LitDashBotanical, LitBotanical, LitIllustrations>>

\* the match object of the cascade: the first pattern that matches
FirstMatch(title) ==
    IF MatchGroup(title, Patterns[1]) # NoMatch THEN MatchGroup(title, Patterns[1])
    ELSE IF MatchGroup(title, Patterns[2]) # NoMatch THEN MatchGroup(title, Patterns[2])
    ELSE MatchGroup(title, Patterns[3])

\* species_name = match.group(1).strip(), or NoMatch when there is no match
ExtractName(title) ==
    IF FirstMatch(title) = NoMatch THEN NoMatch ELSE Strip(FirstMatch(title))

\* ------------------------------------------------------ the remote wikis
\* Commons: the members of type subcat of a category, as the API titles them
CategoryMembersSubcat(category) ==
    LET subs == CASE category = RootCategory -> <<FamRosaceae, FamPinaceae>>
                  [] category = FamRosaceae -> <<GenRosa, GenUnidentified>>
                  [] category = FamPinaceae -> <<GenAbies>>
                  [] category = GenRosa -> <<TaxRosaCanina, TaxRosaAlba, TaxRosaPlates>>
                  [] category = GenUnidentified -> <<TaxRosaGallica>>
                  [] category = GenAbies -> <<TaxAbiesAlba, TaxAbiesPinsapo>>
                  [] OTHER -> <<>>
    IN [i \in 1..Len(subs) |-> LitCategoryPrefix \o subs[i]]

\* Commons: the members of type file of a category, as the API titles them
CategoryMembersFile(category) ==
    LET fs == CASE category = TaxRosaCanina -> <<FileA, FileB>>
                [] category = TaxRosaAlba -> <<FileA, FileC, FileD>>
                [] category = TaxRosaGallica -> <<FileD>>
                [] category = TaxAbiesAlba -> <<FileE>>
                [] OTHER -> <<>>
    IN [i \in 1..Len(fs) |-> LitFilePrefix \o fs[i]]

\* Commons: the categories of a file (prop=categories), as the API titles them
FileCategories(file_name) ==
    LET cs == CASE file_name = FileA -> <<TaxRosaCanina, TaxRosaAlba>>
                [] file_name = FileB -> <<TaxRosaCanina, CatLicense>>
                [] file_name = FileC -> <<TaxRosaAlba>>
                [] file_name = FileD -> <<TaxRosaAlba, TaxRosaGallica>>
                [] file_name = FileE -> <<TaxAbiesAlba>>
                [] OTHER -> <<>>
    IN [i \in 1..Len(cs) |-> LitCategoryPrefix \o cs[i]]

Files == {FileA, FileB, FileC, FileD, FileE}

\* Commons: page id and last revision id of a file page
PageId(file_name) ==
    CASE file_name = FileA -> 11 [] file_name = FileB -> 12
      [] file_name = FileC -> 13 [] file_name = FileD -> 14
      [] file_name = FileE -> 15 [] OTHER -> 0

LastRevId(file_name) ==
    CASE file_name = FileA -> 101 [] file_name = FileB -> 102
      [] file_name = FileC -> 103 [] file_name = FileD -> 104
      [] file_name = FileE -> 105 [] OTHER -> 0

Qids == {"Q1", "Q2", "Q3", "Q4"}

\* the names the entity search is asked about in this tree
ResolverNames ==
    {NameRosaCanina, NameRosaAlba, NameAbiesAlba, NameAbiesPinsapo,
     NameRosaAlbaLong, NameAbiesAlbaLong, NameCC}

ResolverOf(rc, ra, aa, ap, ral, aal, cc) ==
    [n \in ResolverNames |->
        CASE n = NameRosaCanina -> rc [] n = NameRosaAlba -> ra
          [] n = NameAbiesAlba -> aa [] n = NameAbiesPinsapo -> ap
          [] n = NameRosaAlbaLong -> ral [] n = NameAbiesAlbaLong -> aal
          [] n = NameCC -> cc]

\* the answers of the entity search the runs are checked against: one entity
\* per name; two names of one entity and a hit for a licence category; a
\* name without entity
Resolvers ==
    {ResolverOf("Q1", "Q2", "Q3", "Q4", NoItem, NoItem, NoItem),
     ResolverOf("Q1", "Q2", "Q1", "Q4", NoItem, "Q1", "Q2"),
     ResolverOf(NoItem, "Q2", "Q3", NoItem, "Q2", NoItem, "Q1")}

\* Wikidata: the P18 / P13162 values (file names) of every item before the
\* first run
ItemClaimsOf(p18, p13162) ==
    [q \in Qids |-> IF q = "Q1" THEN [P18 |-> p18, P13162 |-> p13162]
                    ELSE [P18 |-> {}, P13162 |-> {}]]

ItemConfigs ==
    {ItemClaimsOf({}, {}),
     ItemClaimsOf({FileB}, {}),
     ItemClaimsOf({FileC}, {FileB}),
     ItemClaimsOf({}, {FileA})}

\* Commons: the media-info record of every file before the first run
MediaOf(stateB, p180A) ==
    [f \in Files |->
        [state |-> IF f = FileB THEN stateB ELSE "exists",
         P180 |-> IF f = FileA THEN p180A ELSE {}]]

MediaConfigs ==
    {MediaOf("missing", {}), MediaOf("exists", {"Q1"}), MediaOf("nopage", {"Q1"})}

\* --------------------------------------------------------- helper.py
\* "cmlimit": "max": the most members the API puts in the answer to one
\* request (500 on the live wiki); the rest is behind a continue token
PageLimit == 4

\* response["query"]["categorymembers"] of the one request the code makes
FirstPage(members) ==
    SubSeq(members, 1, Min({Len(members), PageLimit}))

\* the titles of the answer with the namespace prefix replaced by ""
ListingTitles(members, prefix) ==
    LET page == FirstPage(members)
    IN [i \in 1..Len(page) |-> Replace(page[i], prefix, <<>>)]

\* sub.replace("Category:", "") over the titles of the listing
get_subcategories(category) ==
    ListingTitles(CategoryMembersSubcat(category), LitCategoryPrefix)

\* file["title"].replace("File:", "") over the titles of the listing
get_files_in_category(category) ==
    ListingTitles(CategoryMembersFile(category), LitFilePrefix)

\* the value the query service gives for a Commons media value
QueryValue(file_name) == FilePathUriPrefix \o Quote(file_name, {})

\* r["value"].split("/")[-1]
LastSegment(uri) ==
    LET slashes == {i \in 1..Len(uri) : uri[i] = "/"}
    IN IF slashes = {} THEN uri ELSE Tail_(uri, Max(slashes) + 1)

\* the existing values of one property of one item, as the code sees them
get_existing_claims(itemClaims, wikidata_item, prop_nr) ==
    LET values == IF prop_nr = "P18" THEN itemClaims[wikidata_item].P18
                  ELSE itemClaims[wikidata_item].P13162
    IN {LastSegment(QueryValue(v)) : v \in values}

\* title_encoded and lastrevid of the permalink
\* https://commons.wikimedia.org/w/index.php?title=<title>&oldid=<lastrevid>
build_commons_file_permalink(file_name) ==
    [title |-> Quote(Replace(file_name, <<" ">>, <<"_">>), {":", "/"}),
     oldid |-> LastRevId(file_name)]

\* the entity search: the id of the first hit, or NoItem
get_qid_from_taxon_name(res, taxon_name) ==
    IF taxon_name \in DOMAIN res THEN res[taxon_name] ELSE NoItem

\* ---------------------------------------------------- ledger files
Kinds == {"species", "genera", "families", "files"}

RECURSIVE SetToSeq(_)
\* list(a_set): the elements in some order
SetToSeq(S) ==
    IF S = {} THEN <<>>
    ELSE LET x == CHOOSE y \in S : TRUE IN <<x>> \o SetToSeq(S \ {x})

AbsentFile == [exists |-> FALSE, data |-> <<>>]

\* a ledger file is a YAML sequence of scalars; a scalar is written plain or
\* in single quotes, and a scalar cut off inside its quotes cannot be read
Digits == {"0", "1", "2", "3", "4", "5", "6", "7", "8", "9"}

YamlNulls ==
    {<<>>, <<"~">>, <<"n", "u", "l", "l">>, <<"N", "u", "l", "l">>,
     <<"N", "U", "L", "L">>}

YamlBools ==
    {<<"t", "r", "u", "e">>, <<"T", "r", "u", "e">>, <<"f", "a", "l", "s", "e">>,
     <<"F", "a", "l", "s", "e">>, <<"y", "e", "s">>, <<"n", "o">>,
     <<"o", "n">>, <<"o", "f", "f">>}

\* the type yaml.safe_load gives a plain scalar (of the kinds of text that
\* occur here: null, bool, int, else str)
YamlResolve(text) ==
    IF text \in YamlNulls THEN "null"
    ELSE IF text \in YamlBools THEN "bool"
    ELSE IF \A i \in 1..Len(text) : text[i] \in Digits THEN "int"
    ELSE "str"

\* first characters a plain scalar cannot start with
YamlIndicators ==
    {"-", "?", ":", ",", "[", "]", "{", "}", "#", "&", "*", "!", "|", ">",
     "'", "%", "@", " "}

\* yaml.dump of one str: plain when the plain text reads back as that str,
\* else single-quoted
YamlDumpPlain(text) == [style |-> "plain", text |-> text]
YamlDumpScalar(text) ==
    IF /\ YamlResolve(text) = "str"
       /\ text[1] \notin YamlIndicators
       /\ text[Len(text)] # " "
       /\ ~ Contains(text, <<":", " ">>)
       /\ ~ Contains(text, <<" ", "#">>)
    THEN [style |-> "plain", text |-> text]
    ELSE [style |-> "single", text |-> text]

\* yaml.safe_load of one scalar: the str, or for a plain scalar of another
\* type the value of that type (the type name put before the text)
YamlLoadScalar(token) ==
    IF token.style = "plain" /\ YamlResolve(token.text) # "str"
    THEN <<YamlResolve(token.text)>> \o token.text
    ELSE token.text

\* the content of the ledger file after yaml.dump(list(processed_entities))
SavedNothing(processed_entities) == [exists |-> TRUE, data |-> <<>>]
SavedLastOnly(processed_entities) ==
    [exists |-> TRUE,
     data |-> IF processed_entities = {} THEN <<>>
              ELSE <<YamlDumpScalar(SetToSeq(processed_entities)[
                                       Cardinality(processed_entities)])>>]
save_processed_entities(processed_entities) ==
    [exists |-> TRUE,
     data |-> [i \in 1..Cardinality(processed_entities) |->
                  YamlDumpScalar(SetToSeq(processed_entities)[i])]]

\* processed_entities.add(entity)
AddsNothing(processed_entities, entity) == processed_entities
Add(processed_entities, entity) == processed_entities \cup {entity}

\* yaml.safe_load raises on a file it cannot parse; nothing catches it
load_raises(file) ==
    file.exists /\ \E i \in 1..Len(file.data) : file.data[i].style = "broken"

\* set(yaml.safe_load(f)) of an existing file with entries, else set()
LoadsNothing(file) == {}
load_processed_entities(file) ==
    IF file.exists
    THEN (IF file.data # <<>>
          THEN {YamlLoadScalar(file.data[i]) : i \in 1..Len(file.data)}
          ELSE {})
    ELSE {}

EmptyDict == [t \in {} |-> <<>>]

\* dict.update
DictUpdate(d, e) ==
    [t \in (DOMAIN d) \cup (DOMAIN e) |-> IF t \in DOMAIN e THEN e[t] ELSE d[t]]

\* the review file when the first run starts: none, or one an earlier run
\* over an earlier state of the category tree left, with one title
ReviewFiles ==
    {AbsentFile,
     [exists |-> TRUE,
      data |-> [t \in {<<"P", "i", "n", "u", "s", " ", "p", "i", "n", "e", "a">>
                         \o LitIllustrations} |-> <<FileC, FileD, FileE>>]]}

\* the review file after save_to_yaml(data): load or {}, update, dump
SaveOverwrites(file, data) == [exists |-> TRUE, data |-> data]
save_to_yaml(file, data) ==
    [exists |-> TRUE,
     data |-> DictUpdate(IF file.exists THEN file.data ELSE EmptyDict, data)]

\* ------------------------------------------------------------ claims
NoProp == "None"

\* create_reference: one reference block of two snaks
NoReferences(file_name) == <<>>
create_reference(file_name) ==
    << << [prop_nr |-> "P887", value |-> "Q131478853"],
          [prop_nr |-> "P4656", value |-> build_commons_file_permalink(file_name)] >> >>

\* step 2 of add_depicts_or_illustration_statements: which property to add
ChoosePropertyFillsPrimary(existing_p18, existing_p13162) ==
    IF existing_p18 = {} THEN "P18"
    ELSE IF existing_p13162 = {} THEN "P13162"
    ELSE NoProp
ChoosePropertyPrimaryOnly(existing_p18, existing_p13162) ==
    IF existing_p18 = {} /\ existing_p13162 = {} THEN "P18" ELSE NoProp
ChooseProperty(existing_p18, existing_p13162) ==
    IF existing_p18 = {} /\ existing_p13162 = {} THEN "P18"
    ELSE IF existing_p18 # {} /\ existing_p13162 = {} THEN "P13162"
    ELSE NoProp

\* the loop that removes every file that is already claimed
RemoveClaimedP13162Only(files_, existing_p18, existing_p13162) ==
    SelectSeq(files_, LAMBDA f : QuoteDefault(f) \notin existing_p13162)
RemoveClaimed(files_, existing_p18, existing_p13162) ==
    SelectSeq(files_, LAMBDA f :
        ~ (QuoteDefault(f) \in existing_p18 \/ QuoteDefault(f) \in existing_p13162))

\* CommonsMedia(prop_nr=add_prop, value=file_name, references=references)
ItemClaim(add_prop, file_name) ==
    [prop_nr |-> add_prop, value |-> file_name, rank |-> "normal",
     references |-> create_reference(file_name)]

\* the write calls of one reconciliation: one call with all the new claims,
\* none when there is nothing new
WriteCallsPerClaim(target, claims) ==
    LET s == SetToSeq(claims)
    IN [i \in 1..Len(s) |-> [target |-> target, claims |-> {s[i]}]]
WriteCalls(target, claims) ==
    IF claims = {} THEN <<>> ELSE << [target |-> target, claims |-> claims] >>

\* process_family_category of the item flow: what is done with a leaf
LeafRouteFromTwo(file_count) ==
    IF file_count = 1 THEN "reconcile"
    ELSE IF file_count >= 2 THEN "review" ELSE "nothing"
LeafRoute(file_count) ==
    IF file_count = 1 \/ file_count = 2 THEN "reconcile"
    ELSE IF file_count >= 3 THEN "review" ELSE "nothing"

\* add_depicts_claim: the taxon name of one category of the file
CategoryTaxonName(category) ==
    Replace(Strip(SplitDashFirst(category)), LitCategoryPrefix, <<>>)

\* add_depicts_claim: list(set(list_of_taxonomic_qids))
TaxonomicQids(res, file_name) ==
    LET cats == FileCategories(file_name)
    IN {get_qid_from_taxon_name(res, CategoryTaxonName(cats[i])) :
            i \in 1..Len(cats)} \ {NoItem}

\* add_depicts_claim: the rank of the depicts claims of one file
RankAtLeastOne(list_of_taxonomic_qids) ==
    IF Cardinality(list_of_taxonomic_qids) >= 1 THEN "normal" ELSE "preferred"
Rank(list_of_taxonomic_qids) ==
    IF Cardinality(list_of_taxonomic_qids) > 1 THEN "normal" ELSE "preferred"

\* add_depicts_claim: the loop over the resolved ids.  The "continue" on a
\* P180 value equal to the id continues the inner loop over the values, so
\* the id is not skipped and a claim is appended for every id.
DepictsClaims(list_of_taxonomic_qids, p180_values, file_name) ==
    {[prop_nr |-> "P180", value |-> q, rank |-> Rank(list_of_taxonomic_qids),
      references |-> create_reference(file_name)] :
        q \in list_of_taxonomic_qids}

\* get_media_info_id
get_media_info_id(file_name) == [ns |-> "M", pageid |-> PageId(file_name)]

\* ------------------------------------------------------------- state
VARIABLES
    flow,                 \* which script runs: "item" or "depicts"
    resolver,             \* the answers of the entity search
    items,                \* Wikidata: P18 / P13162 values of every item
    missing,              \* Wikidata: the ids whose entity does not exist
    media,                \* Commons: media-info record of every file
    ledger,               \* the processed_<kind>.yaml files
    review,               \* categories_to_review.yaml
    run,                  \* number of the current run of the script
    completed,            \* the runs that reached the end of __main__
    faults,               \* number of remote calls that have failed so far
    pc,                   \* position of the run
    crash_cause,          \* the exception that ended the run, or "none"
    calls_made,           \* the remote calls of the last step, by unit
    list_of_categories, families, fi,
    categories_to_review, processed_species, processed_genera,
    genera, gi, taxa, ti,
    files, processed_files, depicted_item, xi,
    recLog,               \* one record per reconciliation of a target
    leafLog,              \* one record per leaf category handled
    xTitle, xName,        \* input and result of the extractor on its own
    save_list,            \* list(processed_entities) of the save under way
    persisted,            \* the identifiers of the saves that have returned
    members               \* the members of the category a listing is asked for

remoteVars == <<flow, resolver, items, missing, media>>
diskVars == <<ledger, review>>
mainVars == <<list_of_categories, families, fi>>
familyVars == <<categories_to_review, processed_species, processed_genera, genera, gi>>
taxaVars == <<taxa, ti>>
fileVars == <<files, processed_files, depicted_item, xi>>
logVars == <<recLog, leafLog>>
extractVars == <<xTitle, xName>>
sideVars == <<save_list, persisted, members>>

vars == <<remoteVars, diskVars, run, completed, faults, pc, crash_cause, calls_made,
          mainVars, familyVars, taxaVars, fileVars, logVars, extractVars,
          sideVars>>

\* one remote call made for a unit of work
Call(kind, id, call) == [kind |-> kind, id |-> id, call |-> call]

Pending == <<"pending">>

\* the memory of a process that has just started
FreshMemory ==
    /\ list_of_categories = <<>> /\ families = {} /\ fi = 1
    /\ categories_to_review = EmptyDict
    /\ processed_species = {} /\ processed_genera = {}
    /\ genera = <<>> /\ gi = 1 /\ taxa = <<>> /\ ti = 1
    /\ files = <<>> /\ processed_files = {} /\ depicted_item = NoItem /\ xi = 1

Init ==
    /\ flow \in {"item", "depicts"}
    /\ resolver \in Resolvers
    /\ items \in ItemConfigs
    /\ media \in MediaConfigs
    /\ (flow = "item" => media = MediaOf("missing", {}))
    /\ (flow = "depicts" => items = ItemClaimsOf({}, {}))
    /\ missing \in {{}, {"Q1"}}
    /\ (missing # {} => flow = "item" /\ items = ItemClaimsOf({}, {}))
    /\ ledger = [k \in Kinds |-> AbsentFile]
    /\ review \in ReviewFiles
    /\ (review # AbsentFile => flow = "item" /\ missing = {})
    /\ run = 1
    /\ completed = {}
    /\ faults = 0
    /\ pc = "start"
    /\ crash_cause = "none"
    /\ calls_made = {}
    /\ save_list = <<>>
    /\ persisted = {}
    /\ members = <<>>
    /\ FreshMemory
    /\ recLog = <<>>
    /\ leafLog = <<>>
    /\ xTitle = <<>>
    /\ xName = Pending

\* ----------------------------------------------------------- __main__
\* list_of_categories = get_subcategories(...); families = load(...)
Start ==
    /\ pc = "start"
    /\ list_of_categories' = get_subcategories(RootCategory)
    /\ families' = load_processed_entities(ledger["families"])
    /\ fi' = 1
    /\ pc' = "families"
    /\ calls_made' = {Call("root", RootCategory, "subcategories")}
    /\ UNCHANGED <<remoteVars, diskVars, run, completed, faults, familyVars, taxaVars,
                   fileVars, logVars, extractVars, sideVars, crash_cause>>

\* if category in families: continue
FamilySkip ==
    /\ pc = "families"
    /\ fi <= Len(list_of_categories)
    /\ list_of_categories[fi] \in families
    /\ fi' = fi + 1
    /\ calls_made' = {}
    /\ UNCHANGED <<remoteVars, diskVars, run, completed, faults, pc, list_of_categories,
                   families, familyVars, taxaVars, fileVars, logVars, extractVars, sideVars, crash_cause>>

\* process_family_category up to the loop over the genera
FamilyEnter ==
    /\ pc = "families"
    /\ fi <= Len(list_of_categories)
    /\ list_of_categories[fi] \notin families
    /\ categories_to_review' = EmptyDict
    /\ processed_species' = load_processed_entities(ledger["species"])
    /\ processed_genera' = load_processed_entities(ledger["genera"])
    /\ genera' = get_subcategories(list_of_categories[fi])
    /\ gi' = 1
    /\ pc' = "genera"
    /\ calls_made' = {Call("families", list_of_categories[fi], "subcategories")}
    /\ UNCHANGED <<remoteVars, diskVars, run, completed, faults, mainVars, taxaVars,
                   fileVars, logVars, extractVars, sideVars, crash_cause>>

\* "Unidentified" in genus or genus in processed_genera
GenusExcludedByLedgerOnly(genus, processed) == genus \in processed
GenusExcluded(genus, processed) ==
    Contains(genus, LitUnidentified) \/ genus \in processed

\* if "Unidentified" in genus or genus in processed_genera: continue
GenusSkip ==
    /\ pc = "genera"
    /\ gi <= Len(genera)
    /\ GenusExcluded(genera[gi], processed_genera)
    /\ gi' = gi + 1
    /\ calls_made' = {}
    /\ UNCHANGED <<remoteVars, diskVars, run, completed, faults, pc, mainVars,
                   categories_to_review, processed_species, processed_genera,
                   genera, taxaVars, fileVars, logVars, extractVars, sideVars, crash_cause>>

\* taxa = get_subcategories(genus)
GenusEnter ==
    /\ pc = "genera"
    /\ gi <= Len(genera)
    /\ ~ GenusExcluded(genera[gi], processed_genera)
    /\ taxa' = get_subcategories(genera[gi])
    /\ ti' = 1
    /\ pc' = "taxa"
    /\ calls_made' = {Call("genera", genera[gi], "subcategories")}
    /\ UNCHANGED <<remoteVars, diskVars, run, completed, faults, mainVars, familyVars,
                   fileVars, logVars, extractVars, sideVars, crash_cause>>

\* the leaf the loop over the taxa is at
AtTaxon == pc = "taxa" /\ ti <= Len(taxa)
species_name == ExtractName(taxa[ti])
wikidata_item == get_qid_from_taxon_name(resolver, species_name)

\* no pattern matches: continue
TaxonNoMatch ==
    /\ AtTaxon
    /\ species_name = NoMatch
    /\ ti' = ti + 1
    /\ calls_made' = {}
    /\ UNCHANGED <<remoteVars, diskVars, run, completed, faults, pc, mainVars, familyVars,
                   taxa, fileVars, logVars, extractVars, sideVars, crash_cause>>

\* if species_name in processed_species: continue
TaxonAlreadyProcessed ==
    /\ AtTaxon
    /\ species_name # NoMatch
    /\ species_name \in processed_species
    /\ ti' = ti + 1
    /\ calls_made' = {}
    /\ UNCHANGED <<remoteVars, diskVars, run, completed, faults, pc, mainVars, familyVars,
                   taxa, fileVars, logVars, extractVars, sideVars, crash_cause>>

LeafRecord(route, file_count) ==
    [run |-> run, title |-> taxa[ti], name |-> species_name,
     file_count |-> file_count, route |-> route]

\* "Even if no Wikidata item is found, mark species as processed"
UnmarkedWithoutItem(processed_entities, entity) == processed_entities
MarkedWithoutItem(processed_entities, entity) == Add(processed_entities, entity)

\* if not wikidata_item: mark the species, save, continue
TaxonNoItem ==
    /\ AtTaxon
    /\ species_name # NoMatch
    /\ species_name \notin processed_species
    /\ wikidata_item = NoItem
    /\ processed_species' = MarkedWithoutItem(processed_species, species_name)
    /\ ledger' = [ledger EXCEPT !["species"] =
                     save_processed_entities(processed_species')]
    /\ leafLog' = Append(leafLog, LeafRecord("skipped", 0))
    /\ ti' = ti + 1
    /\ calls_made' = {Call("species", species_name, "resolve")}
    /\ UNCHANGED <<remoteVars, review, run, completed, faults, pc, mainVars,
                   categories_to_review, processed_genera, genera, gi,
                   taxa, fileVars, recLog, extractVars, sideVars, crash_cause>>

\* the entity search is not retried and its error is logged, not raised: the
\* position of the caller after a lookup that failed
LookupErrorRaised(position) == "crashed"
LookupErrorLogged(position) == position

\* the entity search fails for the name: no match, so the species is marked,
\* saved, and the loop goes on
TaxonLookupFails ==
    /\ AtTaxon
    /\ species_name # NoMatch
    /\ species_name \notin processed_species
    /\ faults < MaxFaults
    /\ faults' = faults + 1
    /\ pc' = LookupErrorLogged(pc)
    /\ processed_species' = MarkedWithoutItem(processed_species, species_name)
    /\ ledger' = [ledger EXCEPT !["species"] =
                     save_processed_entities(processed_species')]
    /\ leafLog' = Append(leafLog, LeafRecord("skipped", 0))
    /\ ti' = ti + 1
    /\ calls_made' = {Call("species", species_name, "resolve failed")}
    /\ UNCHANGED <<remoteVars, review, run, completed, mainVars,
                   categories_to_review, processed_genera, genera, gi,
                   taxa, fileVars, recLog, extractVars, sideVars, crash_cause>>

\* ------------------------------------ add_depicts_or_illustration_statements
\* what one call decides, from the claims fetched for the item
ItemReconciliation(itemClaims, item, file_list) ==
    LET existing_p18 == get_existing_claims(itemClaims, item, "P18")
        existing_p13162 == get_existing_claims(itemClaims, item, "P13162")
        add_prop == ChooseProperty(existing_p18, existing_p13162)
        kept == RemoveClaimed(file_list, existing_p18, existing_p13162)
        new == IF add_prop = NoProp THEN {}
               ELSE {ItemClaim(add_prop, kept[i]) : i \in 1..Len(kept)}
    IN [existing_p18 |-> existing_p18, existing_p13162 |-> existing_p13162,
        add_prop |-> add_prop, kept |-> kept, new |-> new,
        calls |-> WriteCalls(item, new)]

\* the claims of the write calls of one reconciliation
Written(calls) == UNION {calls[i].claims : i \in 1..Len(calls)}

\* Wikidata after item.write succeeded
ItemAfterWrite(claimsOfItem, written) ==
    [P18 |-> claimsOfItem.P18 \cup {c.value : c \in {d \in written : d.prop_nr = "P18"}},
     P13162 |-> claimsOfItem.P13162
                  \cup {c.value : c \in {d \in written : d.prop_nr = "P13162"}}]

\* Commons after media.write succeeded
MediaAfterWrite(record, written) ==
    [state |-> "exists", P180 |-> record.P180 \cup {c.value : c \in written}]

\* try: write(...) except Exception: logging.error(...): the position the
\* code is at after the write call, whether it returned or raised
ExceptWriteUncaught(ok, position) == IF ok THEN position ELSE "crashed"
ExceptWrite(ok, position) == position

\* processed.add(unit) after the try/except of the write: the set the unit's
\* save dumps, whether the write returned or raised
MarkedIfWritten(ok, processed_entities, entity) ==
    IF ok THEN Add(processed_entities, entity) ELSE processed_entities
MarkedAfterWrite(ok, processed_entities, entity) ==
    Add(processed_entities, entity)

\* the remote calls of one reconciliation: the fetch and, if any, the write
ReconcileCalls(kind, id, calls) ==
    {Call(kind, id, "fetch")}
        \cup (IF calls # <<>> THEN {Call(kind, id, "write")} ELSE {})

\* wbi.item.get(entity_id=wikidata_item) is reached and the entity is missing
ItemGetRaises(r, item) == r.add_prop # NoProp /\ item \in missing

\* the outcomes a write call can have: it returns or it raises
WriteOutcomes(calls) ==
    IF calls = <<>> \/ faults >= MaxFaults THEN {TRUE} ELSE BOOLEAN

\* item flow: files, then 1 or 2 files -> reconcile, 3 or more -> review,
\* then mark the species and save
TaxonProcess ==
    /\ flow = "item"
    /\ AtTaxon
    /\ species_name # NoMatch
    /\ species_name \notin processed_species
    /\ wikidata_item # NoItem
    /\ LET file_list == get_files_in_category(taxa[ti])
           file_count == Len(file_list)
           route == LeafRoute(file_count)
           r == ItemReconciliation(items, wikidata_item, file_list)
       IN /\ \/ /\ route = "reconcile"
                /\ ~ ItemGetRaises(r, wikidata_item)
                /\ \E ok \in WriteOutcomes(r.calls) :
                     /\ items' = IF ok /\ r.calls # <<>>
                                 THEN [items EXCEPT ![wikidata_item] =
                                          ItemAfterWrite(@, Written(r.calls))]
                                 ELSE items
                     /\ recLog' = Append(recLog,
                          [run |-> run, flow |-> "item", target |-> wikidata_item,
                           title |-> taxa[ti], candidates |-> file_list,
                           existing_p18 |-> r.existing_p18,
                           existing_p13162 |-> r.existing_p13162,
                           existing_p180 |-> {}, taxon_ids |-> {},
                           add_prop |-> r.add_prop, new |-> r.new,
                           calls |-> r.calls, ok |-> ok])
                     /\ faults' = IF ok THEN faults ELSE faults + 1
                     /\ pc' = ExceptWrite(ok, pc)
                     /\ processed_species' =
                          MarkedAfterWrite(ok, processed_species, species_name)
                /\ calls_made' =
                     {Call("species", species_name, "resolve"),
                      Call("species", species_name, "files"),
                      Call("species", species_name, "claims")}
                       \cup (IF r.add_prop = NoProp THEN {}
                             ELSE ReconcileCalls("species", species_name, r.calls))
                /\ UNCHANGED <<categories_to_review, review>>
             \/ /\ route = "review"
                /\ categories_to_review' =
                     DictUpdate(categories_to_review,
                                [t \in {taxa[ti]} |-> file_list])
                /\ review' = save_to_yaml(review, categories_to_review')
                /\ calls_made' = {Call("species", species_name, "resolve"),
                                  Call("species", species_name, "files")}
                /\ processed_species' = Add(processed_species, species_name)
                /\ UNCHANGED <<items, recLog, faults, pc>>
             \/ /\ route = "nothing"
                /\ calls_made' = {Call("species", species_name, "resolve"),
                                  Call("species", species_name, "files")}
                /\ processed_species' = Add(processed_species, species_name)
                /\ UNCHANGED <<items, recLog, faults, pc, categories_to_review,
                               review>>
          /\ leafLog' = Append(leafLog, LeafRecord(route, file_count))
    /\ ledger' = [ledger EXCEPT !["species"] =
                     save_processed_entities(processed_species')]
    /\ ti' = ti + 1
    /\ UNCHANGED <<flow, resolver, missing, media, run, completed, mainVars,
                   processed_genera, genera, gi, taxa, fileVars, extractVars,
                   sideVars, crash_cause>>

\* item flow, one or two files, a property to add, and the entity of the
\* resolved id does not exist: wbi.item.get raises, nothing catches it
TaxonItemMissing ==
    /\ flow = "item"
    /\ AtTaxon
    /\ species_name # NoMatch
    /\ species_name \notin processed_species
    /\ wikidata_item # NoItem
    /\ LET file_list == get_files_in_category(taxa[ti])
           r == ItemReconciliation(items, wikidata_item, file_list)
       IN /\ LeafRoute(Len(file_list)) = "reconcile"
          /\ ItemGetRaises(r, wikidata_item)
    /\ pc' = "crashed"
    /\ crash_cause' = "entity missing"
    /\ calls_made' = {Call("species", species_name, "resolve"),
                      Call("species", species_name, "files"),
                      Call("species", species_name, "claims"),
                      Call("species", species_name, "fetch")}
    /\ UNCHANGED <<remoteVars, diskVars, run, completed, faults, mainVars, familyVars,
                   taxaVars, fileVars, logVars, extractVars, sideVars>>

\* ------------------------------------------------ add_depicts_statements
\* depicts flow: files of the leaf, then add_depicts_statements up to its loop
DepictsEnter ==
    /\ flow = "depicts"
    /\ AtTaxon
    /\ species_name # NoMatch
    /\ species_name \notin processed_species
    /\ wikidata_item # NoItem
    /\ files' = get_files_in_category(taxa[ti])
    /\ depicted_item' = wikidata_item
    /\ processed_files' = load_processed_entities(ledger["files"])
    /\ xi' = 1
    /\ pc' = "files"
    /\ calls_made' = {Call("species", species_name, "resolve"),
                      Call("species", species_name, "files")}
    /\ UNCHANGED <<remoteVars, diskVars, run, completed, faults, mainVars, familyVars,
                   taxaVars, logVars, extractVars, sideVars, crash_cause>>

AtFile == pc = "files" /\ xi <= Len(files)

\* if file_name in processed_files: continue
FileSkip ==
    /\ AtFile
    /\ files[xi] \in processed_files
    /\ xi' = xi + 1
    /\ calls_made' = {}
    /\ UNCHANGED <<remoteVars, diskVars, run, completed, faults, pc, mainVars, familyVars,
                   taxaVars, files, processed_files, depicted_item, logVars,
                   extractVars, sideVars, crash_cause>>

\* the media-info record cannot be loaded (the file has no page id, or the
\* request fails): logged, continue with the next file, the file not marked
FileLoadError ==
    /\ AtFile
    /\ files[xi] \notin processed_files
    /\ \/ /\ media[files[xi]].state = "nopage"
          /\ UNCHANGED faults
       \/ /\ media[files[xi]].state # "nopage"
          /\ faults < MaxFaults
          /\ faults' = faults + 1
    /\ xi' = xi + 1
    /\ calls_made' = {Call("files", files[xi], "fetch")}
    /\ UNCHANGED <<remoteVars, diskVars, run, completed, pc, mainVars, familyVars,
                   taxaVars, files, processed_files, depicted_item, logVars,
                   extractVars, sideVars, crash_cause>>

\* the record is loaded (or is missing and a new one is made), the claims
\* are built from the categories of the file, one write, the file is marked
FileProcess ==
    /\ AtFile
    /\ files[xi] \notin processed_files
    /\ media[files[xi]].state \in {"exists", "missing"}
    /\ LET file_name == files[xi]
           mediainfo_id == get_media_info_id(file_name)
           p180_values == media[file_name].P180
           list_of_taxonomic_qids == TaxonomicQids(resolver, file_name)
           new_statements ==
               DepictsClaims(list_of_taxonomic_qids, p180_values, file_name)
           calls == WriteCalls(mediainfo_id, new_statements)
       IN \E ok \in WriteOutcomes(calls) :
            /\ media' = IF ok /\ calls # <<>>
                        THEN [media EXCEPT ![file_name] =
                                 MediaAfterWrite(@, Written(calls))]
                        ELSE media
            /\ recLog' = Append(recLog,
                 [run |-> run, flow |-> "depicts", target |-> mediainfo_id,
                  title |-> file_name, candidates |-> <<>>,
                  existing_p18 |-> {}, existing_p13162 |-> {},
                  existing_p180 |-> p180_values,
                  taxon_ids |-> list_of_taxonomic_qids,
                  add_prop |-> "P180", new |-> new_statements,
                  calls |-> calls, ok |-> ok])
            /\ faults' = IF ok THEN faults ELSE faults + 1
            /\ pc' = ExceptWrite(ok, pc)
            /\ processed_files' = MarkedAfterWrite(ok, processed_files, file_name)
            /\ calls_made' =
                 {Call("files", file_name, "categories")}
                   \cup {Call("category", CategoryTaxonName(c), "resolve") :
                            c \in Range(FileCategories(file_name))}
                   \cup ReconcileCalls("files", file_name, calls)
    /\ ledger' = [ledger EXCEPT !["files"] =
                     save_processed_entities(processed_files')]
    /\ xi' = xi + 1
    /\ UNCHANGED <<flow, resolver, items, missing, review, run, completed, mainVars,
                   familyVars, taxaVars, files, depicted_item, leafLog,
                   extractVars, sideVars, crash_cause>>

\* add_depicts_claim when the request for the categories of the file fails or
\* answers without pages or without categories: "categories" is not bound
\* (or next() of an empty iterator raises), nothing catches it, the run ends
FileCrash ==
    /\ AtFile
    /\ files[xi] \notin processed_files
    /\ media[files[xi]].state \in {"exists", "missing"}
    /\ faults < MaxFaults
    /\ \E answer \in {"request failed", "no pages", "no categories"} :
          pc' = "crashed"
    /\ crash_cause' = "categories not bound"
    /\ faults' = faults + 1
    /\ calls_made' = {Call("files", files[xi], "fetch"),
                      Call("files", files[xi], "categories")}
    /\ UNCHANGED <<remoteVars, diskVars, run, completed, mainVars, familyVars,
                   taxaVars, fileVars, logVars, extractVars, sideVars>>

\* after the loop over the files: mark the species and save
DepictsExit ==
    /\ pc = "files"
    /\ xi > Len(files)
    /\ processed_species' = Add(processed_species, species_name)
    /\ ledger' = [ledger EXCEPT !["species"] =
                     save_processed_entities(processed_species')]
    /\ leafLog' = Append(leafLog, LeafRecord("depicts", Len(files)))
    /\ ti' = ti + 1
    /\ pc' = "taxa"
    /\ calls_made' = {}
    /\ UNCHANGED <<remoteVars, review, run, completed, faults, mainVars,
                   categories_to_review, processed_genera, genera, gi, taxa,
                   fileVars, recLog, extractVars, sideVars, crash_cause>>

\* requests.get(COMMONS_API, params=params) of a listing raises (connection
\* error, timeout): neither the helper nor any caller catches it, the run ends
ListingFailure ==
    /\ faults < MaxFaults
    /\ \/ /\ pc = "start"
          /\ calls_made' = {Call("root", RootCategory, "subcategories")}
       \/ /\ pc = "families"
          /\ fi <= Len(list_of_categories)
          /\ list_of_categories[fi] \notin families
          /\ calls_made' = {Call("families", list_of_categories[fi], "subcategories")}
       \/ /\ pc = "genera"
          /\ gi <= Len(genera)
          /\ ~ GenusExcluded(genera[gi], processed_genera)
          /\ calls_made' = {Call("genera", genera[gi], "subcategories")}
       \/ /\ AtTaxon
          /\ species_name # NoMatch
          /\ species_name \notin processed_species
          /\ wikidata_item # NoItem
          /\ calls_made' = {Call("species", species_name, "resolve"),
                            Call("species", species_name, "files")}
    /\ pc' = "crashed"
    /\ crash_cause' = "listing failed"
    /\ faults' = faults + 1
    /\ UNCHANGED <<remoteVars, diskVars, run, completed, mainVars, familyVars,
                   taxaVars, fileVars, logVars, extractVars, sideVars>>

\* ------------------------------------------------- ends of the loops
\* processed_genera.add(genus); save
GenusDone ==
    /\ pc = "taxa"
    /\ ti > Len(taxa)
    /\ processed_genera' = Add(processed_genera, genera[gi])
    /\ ledger' = [ledger EXCEPT !["genera"] =
                     save_processed_entities(processed_genera')]
    /\ gi' = gi + 1
    /\ pc' = "genera"
    /\ calls_made' = {}
    /\ UNCHANGED <<remoteVars, review, run, completed, faults, mainVars,
                   categories_to_review, processed_species, genera, taxaVars,
                   fileVars, logVars, extractVars, sideVars, crash_cause>>

\* process_family_category returns; families.add(category); save
FamilyDone ==
    /\ pc = "genera"
    /\ gi > Len(genera)
    /\ families' = Add(families, list_of_categories[fi])
    /\ ledger' = [ledger EXCEPT !["families"] = save_processed_entities(families')]
    /\ fi' = fi + 1
    /\ pc' = "families"
    /\ calls_made' = {}
    /\ UNCHANGED <<remoteVars, review, run, completed, faults, list_of_categories,
                   familyVars, taxaVars, fileVars, logVars, extractVars, sideVars, crash_cause>>

\* the loop over the families is over
RunDone ==
    /\ pc = "families"
    /\ fi > Len(list_of_categories)
    /\ pc' = "done"
    /\ completed' = completed \cup {run}
    /\ calls_made' = {}
    /\ UNCHANGED <<remoteVars, diskVars, run, faults, mainVars, familyVars,
                   taxaVars, fileVars, logVars, extractVars, sideVars, crash_cause>>

\* the script is started again: a new process, the same files on disk
Restart ==
    /\ pc \in {"done", "crashed"}
    /\ run < MaxRuns
    /\ run' = run + 1
    /\ pc' = "start"
    /\ list_of_categories' = <<>> /\ families' = {} /\ fi' = 1
    /\ categories_to_review' = EmptyDict
    /\ processed_species' = {} /\ processed_genera' = {}
    /\ genera' = <<>> /\ gi' = 1 /\ taxa' = <<>> /\ ti' = 1
    /\ files' = <<>> /\ processed_files' = {} /\ depicted_item' = NoItem /\ xi' = 1
    /\ calls_made' = {}
    /\ crash_cause' = "none"
    /\ UNCHANGED <<remoteVars, diskVars, completed, faults, logVars, extractVars, sideVars>>

Next ==
    \/ Start \/ FamilySkip \/ FamilyEnter \/ GenusSkip \/ GenusEnter
    \/ TaxonNoMatch \/ TaxonAlreadyProcessed \/ TaxonNoItem \/ TaxonProcess
    \/ DepictsEnter \/ FileSkip \/ FileLoadError \/ FileProcess \/ FileCrash
    \/ DepictsExit \/ GenusDone \/ FamilyDone \/ RunDone \/ Restart
    \/ TaxonItemMissing \/ ListingFailure \/ TaxonLookupFails

Spec == Init /\ [][Next]_vars

\* ------------------------------------------- the extractor on its own
Chunks ==
    {StrRosa, <<" ">>, <<"-">>, LitDashBotanical, LitBotanical,
     LitIllustrations, StrIllustrated}

RECURSIVE TitlesOf(_)
\* the titles made of at most n chunks
TitlesOf(n) ==
    IF n = 0 THEN {<<>>}
    ELSE TitlesOf(n - 1) \cup {c \o t : c \in Chunks, t \in TitlesOf(n - 1)}

InitExtract ==
    /\ flow = "item"
    /\ resolver \in Resolvers
    /\ items = ItemClaimsOf({}, {})
    /\ missing = {}
    /\ media = MediaOf("missing", {})
    /\ ledger = [k \in Kinds |-> AbsentFile]
    /\ review = AbsentFile
    /\ run = 1
    /\ completed = {}
    /\ faults = 0
    /\ pc = "extract"
    /\ crash_cause = "none"
    /\ calls_made = {}
    /\ save_list = <<>>
    /\ persisted = {}
    /\ members = <<>>
    /\ FreshMemory
    /\ recLog = <<>>
    /\ leafLog = <<>>
    /\ xTitle \in TitlesOf(MaxChunks)
    /\ xName = Pending

\* the cascade of lines 113-122 applied to one title
Extract ==
    /\ pc = "extract"
    /\ xName = Pending
    /\ xName' = ExtractName(xTitle)
    /\ pc' = "extracted"
    /\ UNCHANGED <<remoteVars, diskVars, run, completed, faults, mainVars, familyVars,
                   taxaVars, fileVars, logVars, xTitle, sideVars, crash_cause, calls_made>>

NextExtract == Extract

SpecExtract == InitExtract /\ [][NextExtract]_vars

\* ------------------------------------- the ledger functions on their own
\* load, add, save cycles of one ledger file ("species"), a save taken in its
\* two steps (open("w") truncates, yaml.dump writes), and the process killed
\* at any point
MaxMarks == 3

\* identifiers: two names, one that reads as a number, one as a boolean
LedgerIds ==
    {NameRosaCanina, NameAbiesAlba, <<"1", "8", "8", "5">>, <<"n", "o">>}

\* the ledger file when the first process starts: none, an empty one, one
\* left by a save, one whose last entry was cut inside its quotes
LedgerFiles ==
    {AbsentFile,
     [exists |-> TRUE, data |-> <<>>],
     save_processed_entities({NameRosaCanina, NameAbiesAlba}),
     [exists |-> TRUE,
      data |-> <<[style |-> "plain", text |-> NameRosaCanina],
                 [style |-> "broken", text |-> <<"'", "1", "8">>]>>]}

\* list(a_set): the orders the elements can come in
Orders(S) ==
    {f \in [1..Cardinality(S) -> S] : \A i, j \in DOMAIN f : f[i] = f[j] => i = j}

\* what a kill during yaml.dump leaves of the n-th entry on disk: nothing, or
\* a quoted scalar without its closing quote
CutEntry(entry) ==
    {<<>>} \cup (IF YamlDumpScalar(entry).style = "single"
                 THEN {<<[style |-> "broken", text |-> <<"'">> \o entry]>>}
                 ELSE {})

ledgerFrame ==
    <<remoteVars, review, completed, faults, calls_made, mainVars,
      categories_to_review, processed_genera, genera, gi, taxaVars, fileVars,
      logVars, extractVars, members>>

InitLedger ==
    /\ flow = "item"
    /\ resolver = CHOOSE r \in Resolvers : TRUE
    /\ items = ItemClaimsOf({}, {})
    /\ missing = {}
    /\ media = MediaOf("missing", {})
    /\ \E file \in LedgerFiles :
          ledger = [k \in Kinds |-> IF k = "species" THEN file ELSE AbsentFile]
    /\ review = AbsentFile
    /\ run = 1
    /\ completed = {}
    /\ faults = 0
    /\ pc = "ledger_start"
    /\ crash_cause = "none"
    /\ calls_made = {}
    /\ save_list = <<>>
    /\ persisted = {}
    /\ members = <<>>
    /\ FreshMemory
    /\ recLog = <<>>
    /\ leafLog = <<>>
    /\ xTitle = <<>>
    /\ xName = Pending

\* processed_species = load_processed_entities("species")
LedgerLoad ==
    /\ pc = "ledger_start"
    /\ ~ load_raises(ledger["species"])
    /\ processed_species' = load_processed_entities(ledger["species"])
    /\ pc' = "ledger_loaded"
    /\ UNCHANGED <<ledger, run, crash_cause, save_list, persisted, ledgerFrame>>

\* yaml.safe_load raises inside load_processed_entities: the run ends
LedgerLoadRaises ==
    /\ pc = "ledger_start"
    /\ load_raises(ledger["species"])
    /\ pc' = "ledger_raised"
    /\ crash_cause' = "yaml error"
    /\ UNCHANGED <<ledger, run, processed_species, save_list, persisted, ledgerFrame>>

\* processed_species.add(name); save_processed_entities up to and including
\* path.open("w"): the file exists and is empty
LedgerSaveOpen ==
    /\ pc \in {"ledger_loaded", "ledger_saved", "ledger_reloaded"}
    /\ Cardinality(processed_species) < MaxMarks
    /\ \E id \in LedgerIds \ processed_species :
          /\ processed_species' = Add(processed_species, id)
          /\ save_list' \in Orders(processed_species')
    /\ ledger' = [ledger EXCEPT !["species"] = [exists |-> TRUE, data |-> <<>>]]
    /\ pc' = "ledger_dump"
    /\ UNCHANGED <<run, crash_cause, persisted, ledgerFrame>>

\* yaml.dump(list(processed_entities), f) and the close of the file
LedgerSaveDump ==
    /\ pc = "ledger_dump"
    /\ ledger' = [ledger EXCEPT !["species"] =
                     [exists |-> TRUE,
                      data |-> [i \in 1..Len(save_list) |->
                                   YamlDumpScalar(save_list[i])]]]
    /\ persisted' = persisted \cup processed_species
    /\ pc' = "ledger_saved"
    /\ UNCHANGED <<run, crash_cause, processed_species, save_list, ledgerFrame>>

\* the next call of process_family_category loads the file again
LedgerReload ==
    /\ pc = "ledger_saved"
    /\ ~ load_raises(ledger["species"])
    /\ processed_species' = load_processed_entities(ledger["species"])
    /\ pc' = "ledger_reloaded"
    /\ UNCHANGED <<ledger, run, crash_cause, save_list, persisted, ledgerFrame>>

\* the process is killed: between two saves the file is as the last save left
\* it; during a save it holds the entries written so far, the last one
\* possibly cut
LedgerKill ==
    /\ pc \in {"ledger_loaded", "ledger_saved", "ledger_reloaded", "ledger_dump"}
    /\ \/ /\ pc # "ledger_dump"
          /\ UNCHANGED ledger
       \/ /\ pc = "ledger_dump"
          /\ \E n \in 0..(Len(save_list) - 1) :
             \E cut \in CutEntry(save_list[n + 1]) :
                ledger' = [ledger EXCEPT !["species"] =
                              [exists |-> TRUE,
                               data |-> [i \in 1..n |->
                                            YamlDumpScalar(save_list[i])]
                                          \o cut]]
    /\ pc' = "killed"
    /\ crash_cause' = "killed"
    /\ UNCHANGED <<run, processed_species, save_list, persisted, ledgerFrame>>

\* the script is started again on the file the kill left
LedgerRestart ==
    /\ pc = "killed"
    /\ run < MaxRuns
    /\ run' = run + 1
    /\ pc' = "ledger_start"
    /\ crash_cause' = "none"
    /\ processed_species' = {}
    /\ save_list' = <<>>
    /\ UNCHANGED <<ledger, persisted, ledgerFrame>>

NextLedger ==
    \/ LedgerLoad \/ LedgerLoadRaises \/ LedgerSaveOpen \/ LedgerSaveDump
    \/ LedgerReload \/ LedgerKill \/ LedgerRestart

SpecLedger == InitLedger /\ [][NextLedger]_vars

\* --------------------------------------- the listing helpers on their own
\* one call of get_subcategories or get_files_in_category for a category
\* with up to MaxMembers members of the type asked for
MaxMembers == 6

MemberLetters == <<"A", "B", "C", "D", "E", "F", "G", "H">>

\* the titles the API gives the members of the category
MemberTitles(prefix) ==
    {prefix \o <<MemberLetters[i]>> : i \in 1..Min({MaxMembers, Len(MemberLetters)})}

RECURSIVE MemberLists(_, _)
\* the lists of at most n different titles
MemberLists(prefix, n) ==
    IF n = 0 THEN {<<>>}
    ELSE LET shorter == MemberLists(prefix, n - 1)
         IN shorter \cup
              UNION {{Append(l, t) : t \in MemberTitles(prefix) \ Range(l)} :
                        l \in shorter}

listingFrame ==
    <<remoteVars, diskVars, run, completed, faults, crash_cause, calls_made,
      families, fi, familyVars, taxaVars, processed_files, depicted_item, xi,
      logVars, extractVars, save_list, persisted>>

InitListing ==
    /\ flow = "item"
    /\ resolver = CHOOSE r \in Resolvers : TRUE
    /\ items = ItemClaimsOf({}, {})
    /\ missing = {}
    /\ media = MediaOf("missing", {})
    /\ ledger = [k \in Kinds |-> AbsentFile]
    /\ review = AbsentFile
    /\ run = 1
    /\ completed = {}
    /\ faults = 0
    /\ \/ pc = "list_subcategories" /\ members \in MemberLists(LitCategoryPrefix, MaxMembers)
       \/ pc = "list_files" /\ members \in MemberLists(LitFilePrefix, MaxMembers)
    /\ crash_cause = "none"
    /\ calls_made = {}
    /\ save_list = <<>>
    /\ persisted = {}
    /\ FreshMemory
    /\ recLog = <<>>
    /\ leafLog = <<>>
    /\ xTitle = <<>>
    /\ xName = Pending

\* get_subcategories(category): one request, the titles without "Category:"
ListSubcategories ==
    /\ pc = "list_subcategories"
    /\ list_of_categories' = ListingTitles(members, LitCategoryPrefix)
    /\ pc' = "listed_subcategories"
    /\ UNCHANGED <<files, members, listingFrame>>

\* get_files_in_category(category): one request, the titles without "File:"
ListFiles ==
    /\ pc = "list_files"
    /\ files' = ListingTitles(members, LitFilePrefix)
    /\ pc' = "listed_files"
    /\ UNCHANGED <<list_of_categories, members, listingFrame>>

NextListing == ListSubcategories \/ ListFiles

SpecListing == InitListing /\ [][NextListing]_vars

\* ------------------------------------------------------------ checks
RecIndex == 1..Len(recLog)
ItemRecs == {i \in RecIndex : recLog[i].flow = "item"}
DepictsRecs == {i \in RecIndex : recLog[i].flow = "depicts"}

\* the file names among the values of the claims of the write calls
WrittenValues(r) == {c.value : c \in Written(r.calls)}

\* the part of a text left when the spaces around it are taken away
IsTrimOf(name, group) ==
    \E i \in 1..(Len(group) + 1) : \E j \in 0..Len(group) :
        /\ name = SubSeq(group, i, j)
        /\ \A k \in 1..Len(group) : (k < i \/ k > j) => group[k] = " "
        /\ name # <<>> => (name[1] # " " /\ name[Len(name)] # " ")

\* the texts <name> for which the title starts with <name><lit>, <name> not
\* empty and without "-" and "\"
NamesBefore(title, lit) ==
    {n \in {SubSeq(title, 1, p) : p \in 1..Len(title)} :
        /\ \A k \in 1..Len(n) : n[k] # "-" /\ n[k] # "\\"
        /\ Len(n) + Len(lit) <= Len(title)
        /\ SubSeq(title, 1, Len(n) + Len(lit)) = n \o lit}

\* C10: the extractor tries "<name> - botanical illustrations", then
\* "<name> botanical illustrations", then "<name> (illustrations)"; the
\* first that matches gives its captured name with the spaces around it
\* trimmed, a title matching none gives no match; the four example titles
\* give "Rosa", "Rosa", "Rosa" and no match.
ExtractorCascade ==
    pc = "extracted" =>
        LET m1 == NamesBefore(xTitle, LitDashBotanical)
            m2 == NamesBefore(xTitle, LitBotanical)
            m3 == NamesBefore(xTitle, LitIllustrations)
            first == IF m1 # {} THEN m1 ELSE IF m2 # {} THEN m2 ELSE m3
        IN /\ first = {} <=> xName = NoMatch
           /\ first # {} => \E n \in first : IsTrimOf(xName, n)
           /\ xTitle = StrRosa \o LitDashBotanical => xName = StrRosa
           /\ xTitle = StrRosa \o LitBotanical => xName = StrRosa
           /\ xTitle = StrRosa \o LitIllustrations => xName = StrRosa
           /\ xTitle = StrRosa \o StrIllustrated => xName = NoMatch

\* a title the first pattern does not match and the second does
ExtractorCascadeWitness ==
    /\ pc = "extracted"
    /\ xTitle = <<" ">> \o StrRosa \o LitBotanical
    /\ xName = StrRosa


\* C3: the property written to an item is chosen from the fetched claims:
\* neither P18 nor P13162 -> P18; only P18 -> P13162; both -> no property
\* is chosen and nothing is written.
PropertyFillPolicy ==
    \A i \in ItemRecs :
        LET r == recLog[i]
            hasP18 == r.existing_p18 # {}
            hasP13162 == r.existing_p13162 # {}
        IN /\ (~ hasP18 /\ ~ hasP13162) => r.add_prop = "P18"
           /\ (hasP18 /\ ~ hasP13162) => r.add_prop = "P13162"
           /\ (hasP18 /\ hasP13162) => (r.add_prop = NoProp /\ r.calls = <<>>)
           /\ \A c \in Written(r.calls) : c.prop_nr = r.add_prop

\* an item with P18 only got P13162 claims, and an item with both got nothing
PropertyFillPolicyWitness ==
    /\ \E i \in ItemRecs :
          /\ recLog[i].existing_p18 # {} /\ recLog[i].existing_p13162 = {}
          /\ \E c \in Written(recLog[i].calls) : c.prop_nr = "P13162"
    /\ \E i \in ItemRecs :
          /\ recLog[i].existing_p18 # {} /\ recLog[i].existing_p13162 # {}
          /\ recLog[i].calls = <<>>

\* the candidate files of a reconciliation whose URL-encoded name is among
\* the fetched values of P18 or P13162
AlreadyClaimed(r) ==
    {f \in Range(r.candidates) :
        QuoteDefault(f) \in r.existing_p18 \cup r.existing_p13162}

\* C4 as stated: a candidate file already among the existing values of P18 or
\* P13162 is never written, and the other candidate files of the entity are
\* still written.
ClaimedFileExcludedOthersWritten ==
    \A i \in ItemRecs :
        LET r == recLog[i]
        IN /\ AlreadyClaimed(r) \cap WrittenValues(r) = {}
           /\ AlreadyClaimed(r) # {} =>
                 (Range(r.candidates) \ AlreadyClaimed(r)) \subseteq WrittenValues(r)

\* C4 as amended: a candidate file already among the existing values of P18
\* or P13162 is never written; the other candidate files are in the write
\* when a property is chosen (the item has no P13162 value), and nothing is
\* written for the entity when none is chosen.
ClaimedFileExcluded ==
    \A i \in ItemRecs :
        LET r == recLog[i]
        IN /\ AlreadyClaimed(r) \cap WrittenValues(r) = {}
           /\ r.existing_p13162 = {} =>
                 WrittenValues(r) = Range(r.candidates) \ AlreadyClaimed(r)
           /\ r.existing_p13162 # {} => r.calls = <<>>

\* one candidate is already a P18 value and the other candidate is written
ClaimedFileExcludedWitness ==
    \E i \in ItemRecs :
        /\ AlreadyClaimed(recLog[i]) # {}
        /\ WrittenValues(recLog[i]) # {}
        /\ WrittenValues(recLog[i]) = Range(recLog[i].candidates) \ AlreadyClaimed(recLog[i])

LeafIndex == 1..Len(leafLog)
ReviewTitles == IF review.exists THEN DOMAIN review.data ELSE {}

\* C9: in the item flow a leaf with 3 or more files is in the review file and
\* is not reconciled (no claims fetched, no write); a leaf with 1 or 2 files
\* is reconciled and is not in the review file.
ReviewThreshold ==
    \A k \in LeafIndex :
        LET l == leafLog[k]
            reconciled == \E i \in ItemRecs :
                             recLog[i].title = l.title /\ recLog[i].run = l.run
        IN (flow = "item" /\ l.route # "skipped") =>
              /\ l.file_count >= 3 => (l.title \in ReviewTitles /\ ~ reconciled)
              /\ l.file_count \in {1, 2} => (reconciled /\ l.title \notin ReviewTitles)

\* a leaf with 3 files went to the review file, one with 2 files was
\* reconciled
ReviewThresholdWitness ==
    /\ flow = "item"
    /\ \E k \in LeafIndex :
          leafLog[k].file_count = 3 /\ leafLog[k].title \in ReviewTitles
    /\ \E k \in LeafIndex : \E i \in ItemRecs :
          /\ leafLog[k].file_count = 2
          /\ recLog[i].title = leafLog[k].title
          /\ recLog[i].calls # <<>>


\* C5: in the depicts flow no write carries a depicts value that is already
\* a P180 value of the media-info record of the file.
NoWriteOfExistingDepicts ==
    \A i \in DepictsRecs :
        \A c \in Written(recLog[i].calls) : c.value \notin recLog[i].existing_p180

\* C8: when the categories of the file resolve to exactly one distinct taxon
\* id the depicts claim has rank "preferred"; when they resolve to two or
\* more, every depicts claim of the file has rank "normal".
RankPolicy ==
    \A i \in DepictsRecs :
        LET r == recLog[i]
        IN /\ {c.value : c \in r.new} = r.taxon_ids
           /\ Cardinality(r.taxon_ids) = 1 => \A c \in r.new : c.rank = "preferred"
           /\ Cardinality(r.taxon_ids) >= 2 => \A c \in r.new : c.rank = "normal"

\* one file with one taxon and a preferred claim, one file with two taxa and
\* two normal claims
RankPolicyWitness ==
    /\ \E i \in DepictsRecs :
          /\ Cardinality(recLog[i].taxon_ids) = 1
          /\ \E c \in Written(recLog[i].calls) : c.rank = "preferred"
    /\ \E i \in DepictsRecs :
          /\ Cardinality(recLog[i].taxon_ids) = 2
          /\ Cardinality(Written(recLog[i].calls)) = 2
          /\ \A c \in Written(recLog[i].calls) : c.rank = "normal"

\* C6: a reconciliation of one target (an item, a media-info record) makes at
\* most one write call, the call carries all the new claims of the target,
\* and there is no call when there is no new claim.
OneCombinedWrite ==
    \A i \in RecIndex :
        LET r == recLog[i]
        IN /\ Len(r.calls) <= 1
           /\ r.new = {} => r.calls = <<>>
           /\ r.new # {} =>
                 /\ Len(r.calls) = 1
                 /\ r.calls[1].target = r.target
                 /\ r.calls[1].claims = r.new

\* a write with two claims in each flow, and a reconciliation without claims
\* and without write
OneCombinedWriteWitness ==
    /\ \E i \in RecIndex :
          Len(recLog[i].calls) = 1 /\ Cardinality(recLog[i].calls[1].claims) = 2
    /\ \E i \in RecIndex : recLog[i].new = {} /\ recLog[i].calls = <<>>

\* the file a claim of a reconciliation is about
FileOfClaim(r, c) == IF r.flow = "item" THEN c.value ELSE r.title

\* C7: every claim of every write has exactly one reference block, with the
\* statement P887 = Q131478853 and a P4656 permalink to the revision of the
\* file.
EveryClaimReferenced ==
    \A i \in RecIndex : \A c \in Written(recLog[i].calls) :
        /\ Len(c.references) = 1
        /\ Range(c.references[1]) =
              {[prop_nr |-> "P887", value |-> "Q131478853"],
               [prop_nr |-> "P4656",
                value |-> [title |-> c.references[1][2].value.title,
                           oldid |-> LastRevId(FileOfClaim(recLog[i], c))]]}

\* a written claim about "b c.jpg" whose permalink names b_c.jpg at
\* revision 102
EveryClaimReferencedWitness ==
    \E i \in RecIndex : \E c \in Written(recLog[i].calls) :
        /\ FileOfClaim(recLog[i], c) = FileB
        /\ c.references[1][2].value =
              [title |-> <<"b", "_", "c", ".", "j", "p", "g">>, oldid |-> 102]

\* C1: after a run that got through every family, no later run makes a
\* write call.
SecondRunWritesNothing ==
    \A i \in RecIndex :
        recLog[i].calls # <<>> => \A done \in completed : recLog[i].run <= done

\* a second run that got to its end after a first run that wrote
SecondRunWritesNothingWitness ==
    /\ run = 2
    /\ pc = "done"
    /\ 1 \in completed
    /\ \E i \in RecIndex : recLog[i].calls # <<>> /\ recLog[i].run = 1

\* the write calls made for a target, over all runs
WriteCallsFor(target) ==
    {<<i, j>> \in RecIndex \X (1..2) :
        j <= Len(recLog[i].calls) /\ recLog[i].calls[j].target = target}

\* C2: over all runs, at most one write call is made per target entity id.
AtMostOneWritePerEntity ==
    \A i \in RecIndex : Cardinality(WriteCallsFor(recLog[i].target)) <= 1

\* the identifiers that are in the ledger file of a kind
PersistedIds(kind) ==
    {YamlLoadScalar(ledger[kind].data[i]) : i \in 1..Len(ledger[kind].data)}

\* C11: no step makes a remote call for a unit (species, genus, family, file)
\* whose identifier is in the ledger file of its kind before the step,
\* whatever run left that file, an interrupted one included.
LedgerCheckedFirst ==
    [][\A c \in calls_made' :
          c.kind \in Kinds => c.id \notin PersistedIds(c.kind)]_vars

\* in the run after an interrupted one, a leaf of a genus that is not in the
\* genera ledger has just been skipped on its name, without a remote call
LedgerCheckedFirstWitness ==
    /\ run = 2
    /\ completed = {}
    /\ pc = "taxa"
    /\ ti > 1
    /\ genera[gi] \notin PersistedIds("genera")
    /\ ExtractName(taxa[ti - 1]) \in PersistedIds("species")
    /\ calls_made = {}

\* C12: a process started after a kill loads the ledger without an error and
\* gets every identifier whose save had returned before the kill; only the
\* identifier whose save was under way can be missing.
KillLosesAtMostInFlight ==
    run > 1 =>
        /\ pc # "ledger_raised"
        /\ (pc = "ledger_loaded" => persisted \subseteq processed_species)

\* C13: load_processed_entities never raises, and what it returns for a file
\* that is missing or cannot be parsed is the empty set.
LoadOfBadFileIsEmpty ==
    /\ pc # "ledger_raised"
    /\ (/\ pc = "ledger_loaded"
        /\ \/ ~ ledger["species"].exists
           \/ load_raises(ledger["species"]))
          => processed_species = {}

\* C14: the set loaded right after a save is the set that was saved, whatever
\* the identifiers and the order list(processed_entities) gave them.
SaveLoadRoundTrip ==
    pc = "ledger_reloaded" => processed_species = Range(save_list)

\* three identifiers saved and loaded again, one that reads as a number and
\* one that reads as a boolean among them, the number not dumped first
SaveLoadRoundTripWitness ==
    /\ pc = "ledger_reloaded"
    /\ Len(save_list) = 3
    /\ save_list[1] = NameRosaCanina
    /\ {<<"1", "8", "8", "5">>, <<"n", "o">>} \subseteq processed_species

\* C15: no step of a run takes an identifier out of a ledger file: what a
\* file of any kind holds before a step it still holds after it.
LedgerOnlyGrows ==
    [][\A k \in Kinds :
          \A i \in 1..Len(ledger[k].data) :
              \E j \in 1..Len(ledger'[k].data) :
                  YamlLoadScalar(ledger'[k].data[j])
                      = YamlLoadScalar(ledger[k].data[i])]_vars

\* the species ledger holds leaves of both families, each family loaded and
\* saved it in its own call, and the files ledger has been saved too
LedgerOnlyGrowsWitness ==
    /\ run = 1
    /\ {NameRosaCanina, NameRosaAlba, NameAbiesAlba} \subseteq PersistedIds("species")
    /\ {GenRosa, GenAbies} \subseteq PersistedIds("genera")
    /\ FamRosaceae \in PersistedIds("families")
    /\ FileA \in PersistedIds("files")

\* the places of a title in a list
Places(list, title) == {i \in 1..Len(list) : list[i] = title}

\* C16: the list a listing helper returns has every member of the category
\* exactly once (its title without the namespace prefix) and nothing else,
\* however many members the category has.
ListingComplete ==
    /\ pc = "listed_subcategories" =>
          /\ Len(list_of_categories) = Len(members)
          /\ \A i \in 1..Len(members) :
                Cardinality(Places(list_of_categories,
                                   Replace(members[i], LitCategoryPrefix, <<>>))) = 1
    /\ pc = "listed_files" =>
          /\ Len(files) = Len(members)
          /\ \A i \in 1..Len(members) :
                Cardinality(Places(files,
                                   Replace(members[i], LitFilePrefix, <<>>))) = 1

\* C17: every leaf that reached a terminal state (skipped for want of an
\* entity, reconciled, routed to review, or nothing to do) has its extracted
\* name in the species ledger file from the end of that step on.
LeafAlwaysMarked ==
    \A k \in LeafIndex : leafLog[k].name \in PersistedIds("species")

\* one run of the item flow with a skipped leaf, a reconciled leaf whose
\* write failed and a leaf routed to review
LeafAlwaysMarkedWitness ==
    /\ flow = "item"
    /\ \E k \in LeafIndex : leafLog[k].route = "skipped" /\ leafLog[k].run = 1
    /\ \E k \in LeafIndex : leafLog[k].route = "review" /\ leafLog[k].run = 1
    /\ \E k \in LeafIndex :
          /\ leafLog[k].route = "reconcile"
          /\ \E i \in ItemRecs : recLog[i].title = leafLog[k].title /\ ~ recLog[i].ok

\* C18: a step whose write call raised leaves the run where a step whose
\* write returned leaves it: in the same loop, at the next target, with the
\* unit marked in its ledger file, and no exception ends the run.
WriteFailureContinues ==
    [][(Len(recLog') = Len(recLog) + 1 /\ ~ recLog'[Len(recLog')].ok) =>
          /\ pc' = pc
          /\ crash_cause' = "none"
          /\ flow = "item" =>
                (ti' = ti + 1 /\ \E i \in 1..Len(ledger'["species"].data) :
                     YamlLoadScalar(ledger'["species"].data[i]) = species_name)
          /\ flow = "depicts" =>
                (xi' = xi + 1 /\ \E i \in 1..Len(ledger'["files"].data) :
                     YamlLoadScalar(ledger'["files"].data[i]) = files[xi])]_vars

\* a write that failed, and after it in the same run a write for a later
\* target that succeeded
WriteFailureContinuesWitness ==
    \E i, j \in RecIndex :
        /\ i < j
        /\ recLog[i].run = recLog[j].run
        /\ recLog[i].calls # <<>> /\ ~ recLog[i].ok
        /\ recLog[j].calls # <<>> /\ recLog[j].ok
        /\ recLog[j].title # recLog[i].title

\* C19: a target entity that is missing when it is fetched is never the end
\* of the run: no run stops on the missing entity, and a file whose
\* media-info record is missing is taken through the claim building and
\* marked like any other file.
MissingEntityProceeds ==
    /\ crash_cause # "entity missing"
    /\ \A f \in Files :
          (f \in PersistedIds("files") /\ media[f].state = "missing") =>
              \E i \in DepictsRecs : recLog[i].title = f

\* C20: no run is ended by a listing call that failed: the caller goes on
\* with the remaining genera and families.
ListingFailureContinues ==
    ~ (pc = "crashed" /\ crash_cause = "listing failed")

CategoriesFailureContinues ==
    flow = "depicts" =>
        ~ (pc = "crashed" /\ crash_cause = "categories not bound")

\* C23: no step takes a category title out of the review file: the titles
\* it holds before a save it still holds after it.
ReviewOnlyGrows ==
    [][ReviewTitles \subseteq
          (IF review'.exists THEN DOMAIN review'.data ELSE {})]_vars

\* a save of this run has added the title of a leaf with three files to a
\* review file that held the title an earlier run had saved
ReviewOnlyGrowsWitness ==
    /\ TaxRosaAlba \in ReviewTitles
    /\ Cardinality(ReviewTitles) = 2
    /\ \E k \in LeafIndex : leafLog[k].route = "review" /\ leafLog[k].title = TaxRosaAlba

\* the leaf categories under the genus "Unidentified Rosaceae"
UnidentifiedLeaves == Range(get_subcategories(GenUnidentified))
UnidentifiedNames == {ExtractName(t) : t \in UnidentifiedLeaves}

\* C24: the genus whose title contains "Unidentified" is never listed and
\* never in the genera ledger, and no leaf under it is ever resolved, listed,
\* reconciled or sent to review.
UnidentifiedExcluded ==
    /\ GenUnidentified \notin PersistedIds("genera")
    /\ GenUnidentified \notin processed_genera
    /\ \A c \in calls_made :
          /\ c.id # GenUnidentified
          /\ c.id \notin UnidentifiedNames
    /\ \A k \in LeafIndex : leafLog[k].title \notin UnidentifiedLeaves
    /\ \A i \in RecIndex : recLog[i].title \notin UnidentifiedLeaves
    /\ ReviewTitles \cap UnidentifiedLeaves = {}
    /\ pc \in {"taxa", "files"} => genera[gi] # GenUnidentified

\* the family Rosaceae, which lists "Unidentified Rosaceae" after "Rosa", is
\* in the families ledger: the loop over its genera has passed the genus
UnidentifiedExcludedWitness ==
    /\ GenUnidentified \in Range(get_subcategories(FamRosaceae))
    /\ FamRosaceae \in PersistedIds("families")
    /\ GenRosa \in PersistedIds("genera")
    /\ pc = "done"

\* C25: a reconciliation of an item that has a P13162 value and no P18 value
\* chooses no property, builds no claim and makes no write call, and the
\* item still has no P18 value after it.
SecondaryOnlyWritesNothing ==
    \A i \in ItemRecs :
        (recLog[i].existing_p18 = {} /\ recLog[i].existing_p13162 # {}) =>
            /\ recLog[i].add_prop = NoProp
            /\ recLog[i].new = {}
            /\ recLog[i].calls = <<>>

\* an item with a P13162 value only was reconciled with a candidate file
\* that is not among its values
SecondaryOnlyWritesNothingWitness ==
    \E i \in ItemRecs :
        /\ recLog[i].existing_p18 = {}
        /\ recLog[i].existing_p13162 # {}
        /\ Range(recLog[i].candidates) \ AlreadyClaimed(recLog[i]) # {}
        /\ items[recLog[i].target].P18 = {}

\* the property and value of the claims of the write calls of a record
ClaimsCalled(r) == {<<c.prop_nr, c.value>> : c \in Written(r.calls)}

\* C26: the unit of a write call that failed is in its ledger file from the
\* end of that step on (the species of the leaf in the item flow, the file
\* in the depicts flow), and no later reconciliation, of the same run or of a
\* later one, calls write again for a claim of the failed call.
FailedWriteNeverRetried ==
    \A i \in RecIndex :
        (recLog[i].calls # <<>> /\ ~ recLog[i].ok) =>
            /\ recLog[i].flow = "item" =>
                  ExtractName(recLog[i].title) \in PersistedIds("species")
            /\ recLog[i].flow = "depicts" =>
                  recLog[i].title \in PersistedIds("files")
            /\ \A j \in RecIndex :
                  (j > i /\ recLog[j].target = recLog[i].target) =>
                      ClaimsCalled(recLog[j]) \cap ClaimsCalled(recLog[i]) = {}

\* a second run got to its end after a first run in which a write failed and
\* which an exception ended before its family was marked
FailedWriteNeverRetriedWitness ==
    /\ run = 2
    /\ pc = "done"
    /\ completed = {2}
    /\ \E i \in RecIndex :
          recLog[i].calls # <<>> /\ ~ recLog[i].ok /\ recLog[i].run = 1

\* the families and genera of the category tree, the names extracted from
\* the leaves each genus lists, and the genera each family lists whose title
\* is without "Unidentified"
TreeFamilies == Range(get_subcategories(RootCategory))
TreeGenera == UNION {Range(get_subcategories(f)) : f \in TreeFamilies}
GenusLeafNames ==
    [g \in TreeGenera |->
        {ExtractName(t) : t \in Range(get_subcategories(g))} \ {NoMatch}]
FamilyGenera ==
    [f \in TreeFamilies |->
        {g \in Range(get_subcategories(f)) : ~ Contains(g, LitUnidentified)}]

\* C27: for every genus in the genera ledger file, every leaf category its
\* listing gives that has an extractable name has that name in the species
\* ledger file; for every family in the families ledger file, every genus
\* its listing gives whose title is without "Unidentified" is in the genera
\* ledger file.
HierarchicalMarking ==
    LET species == PersistedIds("species")
        marked_genera == PersistedIds("genera")
    IN /\ \A g \in marked_genera :
             g \in TreeGenera /\ GenusLeafNames[g] \subseteq species
       /\ \A f \in PersistedIds("families") :
             f \in TreeFamilies /\ FamilyGenera[f] \subseteq marked_genera

\* both families are marked, by a run that started on the ledger files of a
\* run an exception ended, and a leaf of a marked genus was skipped for want
\* of an entity
HierarchicalMarkingWitness ==
    /\ {FamRosaceae, FamPinaceae} \subseteq PersistedIds("families")
    /\ {GenRosa, GenAbies} \subseteq PersistedIds("genera")
    /\ completed = {2}
    /\ \E k \in LeafIndex : leafLog[k].route = "skipped"

====
